---- MODULE Spec2Model ----
(***************************************************************************)
(* picard-plugin-tools: packaging of plugin directories into archives,     *)
(* manifest binding and verification, whole-archive checksum sidecars,     *)
(* static metadata extraction and catalog building.                        *)
(*                                                                         *)
(* Paths are sequences of path components; an archive entry name is the    *)
(* components joined by "/".  A file's content is a record: [text |-> s]   *)
(* for plain bytes, [json |-> d] for a serialised JSON document d.         *)
(* Garbage collection is CPython's reference counting: a ZipFile that is   *)
(* never closed explicitly is finalised (central directory written) when   *)
(* its last reference goes away.                                           *)
(***************************************************************************)
EXTENDS Integers, Sequences, FiniteSets, TLC

VARIABLES
    source,        \* source_dir: top-level directory name -> (relative path -> content)
    manifest,      \* the manifest document at manifest_path: [exists, doc]
    pkg,           \* the archive package_folder writes: [exists, entries]
    folderCall,    \* the last package_folder call: arguments and outcome
    tampered,      \* number of modifications made to pkg after it was built
    verdict,       \* outcome of the last verify_package on pkg
    cwdManifest,   \* whether ./MANIFEST.json exists in the working directory
    catalog,       \* dest_dir/PLUGINS.json: [exists, plugins]
    archives,      \* dest_dir/<dirname>.picard.zip: dirname -> archive file
    sidecars,      \* dest_dir/<dirname>.picard.zip.md5: dirname -> digest
    batchCall,     \* outcome of the last build_json / package_files call
    validated,     \* dirname -> outcome of validate_plugin on its archive
    pyfile,        \* the parsed source file handed to get_plugin_data
    extracted      \* outcome of get_plugin_data on pyfile

vars == <<source, manifest, pkg, folderCall, tampered, verdict, cwdManifest,
          catalog, archives, sidecars, batchCall, validated, pyfile, extracted>>

folderVars == <<manifest, pkg, folderCall, tampered, verdict>>
batchVars == <<cwdManifest, catalog, archives, sidecars, batchCall, validated>>
extractVars == <<pyfile, extracted>>

(***************************************************************************)
(* Bounds                                                                  *)
(***************************************************************************)
MaxFiles == 2      \* files in the plugin directory given to package_folder
MaxTamper == 1     \* modifications made to a built archive before verifying

(***************************************************************************)
(* Paths (os.path on POSIX, over component sequences)                      *)
(***************************************************************************)
RECURSIVE JoinSlash(_)
JoinSlash(p) ==
    IF Len(p) = 0 THEN ""
    ELSE IF Len(p) = 1 THEN p[1]
    ELSE p[1] \o "/" \o JoinSlash(Tail(p))

basename(p) == <<p[Len(p)]>>

dirname(p) == SubSeq(p, 1, Len(p) - 1)

\* os.path.relpath(p, start) for p below start
relpath(p, start) == SubSeq(p, Len(start) + 1, Len(p))

Perms(S) ==
    { f \in [1..Cardinality(S) -> S] : \A i, j \in 1..Cardinality(S) : f[i] = f[j] => i = j }

\* os.walk(top), top-down: the files of a directory are yielded before the
\* files of its subdirectories; within one directory the order is the
\* file system's.  The result is the list of os.path.join(root, filename).
Walk(top, tree) ==
    LET here == { r \in DOMAIN tree : Len(r) = 1 }
        below == { r \in DOMAIN tree : Len(r) > 1 }
    IN  { [i \in 1..(Len(a) + Len(b)) |->
              top \o (IF i <= Len(a) THEN a[i] ELSE b[i - Len(a)])] :
          a \in Perms(here), b \in Perms(below) }

WorkDir == <<"work">>

\* the content of the file at an absolute path below source_dir
ReadFile(p) == source[p[Len(WorkDir) + 1]][relpath(p, WorkDir \o <<p[Len(WorkDir) + 1]>>)]

(***************************************************************************)
(* zipfile                                                                 *)
(***************************************************************************)
\* the CRC-32 the archive format assigns to an entry's data
CRC32(content) ==
    IF "text" \in DOMAIN content
    THEN CASE content.text = "b" -> 1908338681
           [] content.text = "z" -> 1657960367
           [] content.text = "PLUGIN_NAME = 'p'" -> 1072373427
           [] content.text = "import os" -> 1015443189
           [] content.text = "x =" -> 1750042697
           [] content.text = "PLUGIN_NAME = {[1]: 2}" -> 1657460430
    ELSE 0  \* a serialised document: its checksum is never recorded (line 224 precedes its write)

\* ZipFile.write(filename, arcname): the ZipInfo appended to the archive
ZipWrite(arcname, content) ==
    [filename |-> JoinSlash(arcname), CRC |-> CRC32(content), data |-> content]

ManifestName == "MANIFEST.json"

\* ZipFile.getinfo(name): NameToInfo keeps the last entry written under a name
HasEntry(entries, name) == \E i \in 1..Len(entries) : entries[i].filename = name

GetInfo(entries, name) ==
    LET idx == { i \in 1..Len(entries) : entries[i].filename = name }
    IN  entries[CHOOSE i \in idx : \A j \in idx : j <= i]

\* json.dump / json.loads of a document of strings, integers, lists, objects
JsonDump(doc) == [json |-> doc]

IsJson(content) == "json" \in DOMAIN content

JsonLoads(content) == content.json

(***************************************************************************)
(* package_folder                                                          *)
(***************************************************************************)
\* a variant without the single-file case
FolderEntriesNested(plugin_files, parent_dir) ==
    [i \in 1..Len(plugin_files) |->
         ZipWrite(relpath(plugin_files[i], parent_dir), ReadFile(plugin_files[i]))]

\* lines 210-223: the entries written for the collected plugin_files
FolderEntries(plugin_files, parent_dir) ==
    IF Len(plugin_files) = 1
    THEN <<ZipWrite(basename(plugin_files[1]), ReadFile(plugin_files[1]))>>
    ELSE [i \in 1..Len(plugin_files) |->
              ZipWrite(relpath(plugin_files[i], parent_dir), ReadFile(plugin_files[i]))]

\* line 224 / line 255
InfoList(entries) ==
    [i \in 1..Len(entries) |-> [filename |-> entries[i].filename, crc |-> entries[i].CRC]]

NoPath == ""
ManifestPath == "manifest.json"

package_folder(d, manifest_path) ==
    /\ ~pkg.exists
    /\ \E plugin_files \in Walk(WorkDir \o <<d>>, source[d]) :
         LET plugin_dir == WorkDir \o <<d>>
             parent_dir == dirname(plugin_dir)
             written == FolderEntries(plugin_files, parent_dir)
             info_list == InfoList(written)
             bound == manifest_path # NoPath /\ manifest.exists
             manifest_data ==
                 [k \in DOMAIN manifest.doc \cup {"files"} |->
                      IF k = "files" THEN info_list ELSE manifest.doc[k]]
         IN  /\ manifest' = IF bound THEN [exists |-> TRUE, doc |-> manifest_data]
                            ELSE manifest
             /\ pkg' = [exists |-> TRUE,
                        entries |-> IF bound
                                    THEN Append(written,
                                                ZipWrite(<<ManifestName>>, JsonDump(manifest_data)))
                                    ELSE written]
             /\ folderCall' = [called |-> TRUE,
                               plugin_dir |-> d,
                               manifest_path |-> manifest_path,
                               manifest_before |-> manifest,
                               bound |-> bound,
                               outcome |-> IF bound THEN "returned" ELSE "UnboundLocalError"]
    /\ tampered' = 0
    /\ verdict' = "none"
    /\ UNCHANGED <<source, batchVars, extractVars>>

(***************************************************************************)
(* verify_package                                                          *)
(***************************************************************************)
\* a variant comparing the two lists as sets
verify_result_unordered(entries) ==
    LET info_list == InfoList(SelectSeq(entries, LAMBDA e : e.filename # ManifestName))
    IN  IF ~HasEntry(entries, ManifestName) THEN "KeyError"
        ELSE LET f == GetInfo(entries, ManifestName).data
             IN  IF ~IsJson(f) THEN "JSONDecodeError"
                 ELSE IF "files" \notin DOMAIN JsonLoads(f) THEN "KeyError"
                 ELSE IF { info_list[i] : i \in 1..Len(info_list) }
                             = { JsonLoads(f).files[i] : i \in 1..Len(JsonLoads(f).files) }
                      THEN "True" ELSE "False"

\* lines 254-262: the value verify_package returns, or the exception it raises
verify_result(entries) ==
    LET info_list == InfoList(SelectSeq(entries, LAMBDA e : e.filename # ManifestName))
    IN  IF ~HasEntry(entries, ManifestName) THEN "KeyError"
        ELSE LET f == GetInfo(entries, ManifestName).data
             IN  IF ~IsJson(f) THEN "JSONDecodeError"
                 ELSE IF "files" \notin DOMAIN JsonLoads(f) THEN "KeyError"
                 ELSE IF info_list = JsonLoads(f).files THEN "True" ELSE "False"

verify_package ==
    /\ pkg.exists
    /\ verdict = "none"
    /\ verdict' = verify_result(pkg.entries)
    /\ UNCHANGED <<source, manifest, pkg, folderCall, tampered, batchVars, extractVars>>

(***************************************************************************)
(* Archive modifications made by other tools between build and verify      *)
(***************************************************************************)
Texts == {"b", "z"}

\* an archived file's data is replaced; the format assigns the new checksum
AlterEntry ==
    /\ pkg.exists
    /\ tampered < MaxTamper
    /\ \E i \in 1..Len(pkg.entries), t \in Texts :
         /\ ~IsJson(pkg.entries[i].data)
         /\ pkg.entries[i].data.text # t
         /\ pkg' = [pkg EXCEPT !.entries[i] =
                        [filename |-> pkg.entries[i].filename,
                         CRC |-> CRC32([text |-> t]),
                         data |-> [text |-> t]]]
    /\ tampered' = tampered + 1
    /\ verdict' = "none"
    /\ UNCHANGED <<source, manifest, folderCall, batchVars, extractVars>>

\* the archive is rewritten with two neighbouring entries exchanged
SwapEntries ==
    /\ pkg.exists
    /\ tampered < MaxTamper
    /\ \E i \in 1..(Len(pkg.entries) - 1) :
         pkg' = [pkg EXCEPT !.entries[i] = pkg.entries[i + 1],
                            !.entries[i + 1] = pkg.entries[i]]
    /\ tampered' = tampered + 1
    /\ verdict' = "none"
    /\ UNCHANGED <<source, manifest, folderCall, batchVars, extractVars>>

\* the archive is rewritten without one of its entries
RemoveEntry ==
    /\ pkg.exists
    /\ tampered < MaxTamper
    /\ \E i \in 1..Len(pkg.entries) :
         pkg' = [pkg EXCEPT !.entries =
                     SubSeq(pkg.entries, 1, i - 1) \o SubSeq(pkg.entries, i + 1, Len(pkg.entries))]
    /\ tampered' = tampered + 1
    /\ verdict' = "none"
    /\ UNCHANGED <<source, manifest, folderCall, batchVars, extractVars>>

\* the embedded manifest is rewritten with two neighbouring records of its
\* "files" list exchanged
SwapRecorded ==
    /\ pkg.exists
    /\ tampered < MaxTamper
    /\ \E i \in 1..Len(pkg.entries) :
         /\ IsJson(pkg.entries[i].data)
         /\ LET doc == JsonLoads(pkg.entries[i].data)
            IN  \E k \in 1..(Len(doc.files) - 1) :
                  LET swapped == [doc EXCEPT !.files[k] = doc.files[k + 1],
                                             !.files[k + 1] = doc.files[k]]
                  IN  pkg' = [pkg EXCEPT !.entries[i] =
                                  ZipWrite(<<ManifestName>>, JsonDump(swapped))]
    /\ tampered' = tampered + 1
    /\ verdict' = "none"
    /\ UNCHANGED <<source, manifest, folderCall, batchVars, extractVars>>

(***************************************************************************)
(* get_plugin_data                                                         *)
(***************************************************************************)
\* KNOWN_DATA: the known keys and, for each, target.id.replace('PLUGIN_', '', 1).lower()
KNOWN_DATA ==
    [PLUGIN_NAME |-> "name",
     PLUGIN_AUTHOR |-> "author",
     PLUGIN_VERSION |-> "version",
     PLUGIN_API_VERSIONS |-> "api_versions",
     PLUGIN_LICENSE |-> "license",
     PLUGIN_LICENSE_URL |-> "license_url",
     PLUGIN_DESCRIPTION |-> "description"]

\* A top-level statement of the parsed module is a record
\*   [node, targets, value]: node is "Assign" or another statement class;
\*   targets is the list of assignment targets, each [node, id] with node
\*   "Name" or another expression class; value is the assigned expression,
\*   [eval, v]: ast.literal_eval returns v (eval = "ok"), raises ValueError
\*   (a malformed node: a call, a name, an operator) or raises TypeError
\*   (an unhashable dict key or set element such as {[1]: 2}).
Put(data, name, v) == [k \in DOMAIN data \cup {name} |-> IF k = name THEN v ELSE data[k]]

NoData == [k \in {} |-> "none"]

\* lines 77-91: the loop over ast.iter_child_nodes(root); the result is
\* [outcome, data], outcome "returned" or the exception that ends the call
RECURSIVE ExtractFrom(_, _)
ExtractFrom(nodes, data) ==
    IF nodes = <<>> THEN [outcome |-> "returned", data |-> data]
    ELSE LET node == Head(nodes)
         IN  IF node.node = "Assign" /\ Len(node.targets) = 1
                  /\ node.targets[1].node = "Name"
                  /\ node.targets[1].id \in DOMAIN KNOWN_DATA
             THEN LET name == KNOWN_DATA[node.targets[1].id]
                  IN  IF name \notin DOMAIN data
                      THEN IF node.value.eval = "ok"
                           THEN ExtractFrom(Tail(nodes), Put(data, name, node.value.v))
                           ELSE IF node.value.eval = "ValueError"
                           THEN ExtractFrom(Tail(nodes), data)
                           ELSE [outcome |-> node.value.eval, data |-> NoData]
                      ELSE ExtractFrom(Tail(nodes), data)
             ELSE ExtractFrom(Tail(nodes), data)

\* a variant of the loop without the "name not in data" test
RECURSIVE ExtractLast(_, _)
ExtractLast(nodes, data) ==
    IF nodes = <<>> THEN [outcome |-> "returned", data |-> data]
    ELSE LET node == Head(nodes)
         IN  IF node.node = "Assign" /\ Len(node.targets) = 1
                  /\ node.targets[1].node = "Name"
                  /\ node.targets[1].id \in DOMAIN KNOWN_DATA
             THEN IF node.value.eval = "ok"
                  THEN ExtractLast(Tail(nodes),
                                   Put(data, KNOWN_DATA[node.targets[1].id], node.value.v))
                  ELSE IF node.value.eval = "ValueError"
                  THEN ExtractLast(Tail(nodes), data)
                  ELSE [outcome |-> node.value.eval, data |-> NoData]
             ELSE ExtractLast(Tail(nodes), data)

PluginDataLast(parsed) ==
    IF ~parsed.parses THEN [outcome |-> "SyntaxError", data |-> NoData]
    ELSE ExtractLast(parsed.body, NoData)

\* lines 67-91 on an opened file: parsed is [parses, body]
PluginData(parsed) ==
    IF ~parsed.parses THEN [outcome |-> "SyntaxError", data |-> NoData]
    ELSE ExtractFrom(parsed.body, NoData)

get_plugin_data ==
    /\ extracted.outcome = "none"
    /\ extracted' = PluginData(pyfile)
    /\ UNCHANGED <<source, folderVars, batchVars, pyfile>>

\* the source files get_plugin_data is applied to
MaxStmts == 2

TargetIds == {"PLUGIN_NAME", "PLUGIN_VERSION", "NAME"}

Values ==
    {[eval |-> "ok", v |-> "1"], [eval |-> "ok", v |-> "2"],
     [eval |-> "ValueError", v |-> ""], [eval |-> "TypeError", v |-> ""]}

Stmts ==
    { [node |-> "Assign", targets |-> <<[node |-> "Name", id |-> t]>>, value |-> v] :
          t \in TargetIds, v \in Values }
    \cup { [node |-> "Assign",
            targets |-> <<[node |-> "Name", id |-> "PLUGIN_NAME"],
                          [node |-> "Name", id |-> "PLUGIN_VERSION"]>>,
            value |-> [eval |-> "ok", v |-> "1"]],
           [node |-> "Assign",
            targets |-> <<[node |-> "Attribute", id |-> "PLUGIN_NAME"]>>,
            value |-> [eval |-> "ok", v |-> "1"]],
           [node |-> "AnnAssign",
            targets |-> <<[node |-> "Name", id |-> "PLUGIN_NAME"]>>,
            value |-> [eval |-> "ok", v |-> "1"]] }

SeqsUpTo(S, n) == UNION { [1..k -> S] : k \in 0..n }

PyFiles ==
    { [parses |-> FALSE, body |-> <<>>] }
    \cup { [parses |-> TRUE, body |-> b] : b \in SeqsUpTo(Stmts, MaxStmts) }

NotExtracted == [outcome |-> "none", data |-> NoData]

(***************************************************************************)
(* build_json                                                              *)
(***************************************************************************)
\* ast.parse(source, filepath) on the source texts used as file contents
Parse(text) ==
    CASE text = "PLUGIN_NAME = 'p'" ->
             [parses |-> TRUE,
              body |-> <<[node |-> "Assign",
                          targets |-> <<[node |-> "Name", id |-> "PLUGIN_NAME"]>>,
                          value |-> [eval |-> "ok", v |-> "p"]]>>]
      [] text = "PLUGIN_NAME = {[1]: 2}" ->
             [parses |-> TRUE,
              body |-> <<[node |-> "Assign",
                          targets |-> <<[node |-> "Name", id |-> "PLUGIN_NAME"]>>,
                          value |-> [eval |-> "TypeError", v |-> ""]]>>]
      [] text = "import os" ->
             [parses |-> TRUE,
              body |-> <<[node |-> "Import", targets |-> <<>>,
                          value |-> [eval |-> "ValueError", v |-> ""]]>>]
      [] text = "x =" -> [parses |-> FALSE, body |-> <<>>]
      [] OTHER ->
             [parses |-> TRUE,
              body |-> <<[node |-> "Expr", targets |-> <<>>,
                          value |-> [eval |-> "ValueError", v |-> ""]]>>]

\* os.path.splitext(filename)[1] on the file names used
Ext(filename) ==
    CASE filename \in {"a.py", "b.py"} -> ".py"
      [] filename = "c.pyc" -> ".pyc"
      [] filename \in {"a.txt", "b.txt"} -> ".txt"
      [] filename = "MANIFEST.json" -> ".json"
      [] OTHER -> ""

\* md5(bytes).hexdigest(): distinct inputs have distinct digests
md5hex(bytes) == [md5 |-> bytes]

\* line 121: get_plugin_data(os.path.join(source_dir, dirname, filename))
PluginDataAt(d, filename) ==
    IF <<filename>> \notin DOMAIN source[d]
    THEN [outcome |-> "FileNotFoundError", data |-> NoData]
    ELSE PluginData(Parse(source[d][<<filename>>].text))

\* lines 126-127: open(os.path.join(os.path.dirname(dirname), 'MANIFEST.json'))
\* opens ./MANIFEST.json for reading, then f.write(...)
WriteManifest ==
    IF ~cwdManifest THEN "FileNotFoundError" ELSE "UnsupportedOperation"

\* lines 109-123: the walk of one plugin directory; st is [outcome, files, data]
RECURSIVE ScanFiles(_, _, _)
ScanFiles(d, paths, st) ==
    IF paths = <<>> \/ st.outcome # "returned" THEN st
    ELSE LET file_path == Head(paths)
             filename == file_path[Len(file_path)]
             ext == Ext(filename)
             rel == JoinSlash(relpath(file_path, WorkDir \o <<d>>))
             files == Put(st.files, rel, md5hex(ReadFile(file_path)))
         IN  IF ext = ".pyc" THEN ScanFiles(d, Tail(paths), st)
             ELSE IF ext = ".py" /\ st.data = NoData
             THEN LET r == PluginDataAt(d, filename)
                  IN  IF r.outcome = "returned"
                      THEN ScanFiles(d, Tail(paths),
                                     [outcome |-> "returned", files |-> files, data |-> r.data])
                      ELSE IF r.outcome = "SyntaxError"
                      THEN ScanFiles(d, Tail(paths),
                                     [outcome |-> "returned", files |-> files, data |-> st.data])
                      ELSE [outcome |-> r.outcome, files |-> files, data |-> st.data]
             ELSE ScanFiles(d, Tail(paths),
                            [outcome |-> "returned", files |-> files, data |-> st.data])

NoFiles == [k \in {} |-> md5hex([text |-> ""])]

NoPlugins == [k \in {} |-> NoData]

\* lines 100-129: the loop over the top-level directories; the result is
\* [outcome, plugins]
RECURSIVE BuildPlugins(_, _, _)
BuildPlugins(dirs, walks, plugins) ==
    IF dirs = <<>> THEN [outcome |-> "returned", plugins |-> plugins]
    ELSE LET name == Head(dirs)
         IN  IF name = ".git" THEN BuildPlugins(Tail(dirs), walks, plugins)
             ELSE LET st == ScanFiles(name, walks[name],
                                      [outcome |-> "returned", files |-> NoFiles, data |-> NoData])
                  IN  IF st.outcome # "returned"
                      THEN [outcome |-> st.outcome, plugins |-> plugins]
                      ELSE IF st.files # NoFiles /\ st.data # NoData
                      THEN IF WriteManifest # "written"
                           THEN [outcome |-> WriteManifest, plugins |-> plugins]
                           ELSE BuildPlugins(Tail(dirs), walks,
                                             Put(plugins, name, Put(st.data, "files", st.files)))
                      ELSE BuildPlugins(Tail(dirs), walks, plugins)

\* next(os.walk(source_dir))[1] and the os.walk of each directory
DirOrders == Perms(DOMAIN source)

WalkChoices ==
    { w \in [DOMAIN source -> UNION { Walk(WorkDir \o <<d>>, source[d]) : d \in DOMAIN source }] :
          \A d \in DOMAIN source : w[d] \in Walk(WorkDir \o <<d>>, source[d]) }

build_json ==
    /\ batchCall.built = "none"
    /\ \E dirs \in DirOrders, walks \in WalkChoices :
         LET r == BuildPlugins(dirs, walks, NoPlugins)
         IN  /\ catalog' = IF r.outcome = "returned"
                           THEN [exists |-> TRUE, plugins |-> r.plugins]
                           ELSE catalog
             /\ batchCall' = [batchCall EXCEPT !.built = r.outcome]
    /\ UNCHANGED <<source, folderVars, cwdManifest, archives, sidecars, validated, extractVars>>

(***************************************************************************)
(* package_files, validate_plugin                                          *)
(***************************************************************************)
\* get_valid_plugins: None when there is no catalog document
get_valid_plugins ==
    IF catalog.exists THEN [none |-> FALSE, keys |-> DOMAIN catalog.plugins]
    ELSE [none |-> TRUE, keys |-> {}]

\* truth value of valid_plugins (None and the empty list are false)
Truthy(valid_plugins) == ~valid_plugins.none /\ valid_plugins.keys # {}

\* lines 148-149
Selected(valid_plugins, name) ==
    \/ Truthy(valid_plugins) /\ name \in valid_plugins.keys
    \/ ~Truthy(valid_plugins)

\* lines 161-174
FilesEntries(plugin_files, source_dir) ==
    IF Len(plugin_files) = 1
    THEN <<ZipWrite(basename(plugin_files[1]), ReadFile(plugin_files[1]))>>
    ELSE [i \in 1..Len(plugin_files) |->
              ZipWrite(relpath(plugin_files[i], source_dir), ReadFile(plugin_files[i]))]

\* the bytes of an archive file: the local entries, then, once the ZipFile
\* is closed, the central directory and its end record; cut counts the
\* bytes removed from the end of the file
FileBytes(file) ==
    [local |-> file.entries,
     central |-> IF file.finalised THEN <<InfoList(file.entries), "end">> ELSE <<>>,
     cut |-> file.cut]

\* line 175-176: the digest is taken while the ZipFile is still open
SidecarDigest(entries) ==
    md5hex(FileBytes([entries |-> entries, finalised |-> FALSE, cut |-> 0]))

package_files ==
    /\ ~batchCall.packaged
    /\ \E walks \in WalkChoices :
         LET valid_plugins == get_valid_plugins
             done == { d \in DOMAIN source : Selected(valid_plugins, d) }
             entries == [d \in done |-> FilesEntries(walks[d], WorkDir)]
         IN  /\ archives' = [d \in DOMAIN archives \cup done |->
                                IF d \in done
                                THEN [entries |-> entries[d], finalised |-> TRUE, cut |-> 0]
                                ELSE archives[d]]
             /\ sidecars' = [d \in DOMAIN sidecars \cup done |->
                                IF d \in done THEN SidecarDigest(entries[d]) ELSE sidecars[d]]
             /\ batchCall' = [batchCall EXCEPT !.packaged = TRUE, !.gate = catalog]
             /\ validated' = [d \in DOMAIN validated \cup done |-> "none"]
    /\ UNCHANGED <<source, folderVars, cwdManifest, catalog, extractVars>>

validate_plugin(d) ==
    /\ d \in DOMAIN archives /\ d \in DOMAIN sidecars
    /\ validated[d] = "none"
    /\ validated' = [validated EXCEPT ![d] =
                         IF sidecars[d] = md5hex(FileBytes(archives[d])) THEN "True" ELSE "False"]
    /\ UNCHANGED <<source, folderVars, cwdManifest, catalog, archives, sidecars,
                   batchCall, extractVars>>

\* the archive file loses its last byte
MaxCut == 1

truncate_archive(d) ==
    /\ d \in DOMAIN archives
    /\ archives[d].cut < MaxCut
    /\ archives' = [archives EXCEPT ![d].cut = @ + 1]
    /\ validated' = [validated EXCEPT ![d] = "none"]
    /\ UNCHANGED <<source, folderVars, cwdManifest, catalog, sidecars, batchCall, extractVars>>

(***************************************************************************)
(* Specifications                                                          *)
(***************************************************************************)
NoArchive == [exists |-> FALSE, entries |-> <<>>]

NoCall == [called |-> FALSE]

NoCatalog == [exists |-> FALSE, plugins |-> NoPlugins]

NoBatch == [built |-> "none", packaged |-> FALSE, gate |-> NoCatalog]

NoDirs == [d \in {} |-> <<>>]

FoldersIdle ==
    /\ manifest = [exists |-> FALSE]
    /\ pkg = NoArchive
    /\ folderCall = NoCall
    /\ tampered = 0
    /\ verdict = "none"

BatchIdle ==
    /\ archives = NoDirs
    /\ sidecars = NoDirs
    /\ batchCall = NoBatch
    /\ validated = NoDirs

ExtractIdle ==
    /\ pyfile = [parses |-> FALSE, body |-> <<>>]
    /\ extracted = NotExtracted

\* package-one and verify-archive on one plugin directory, work/plug
FolderPaths ==
    {<<"a.txt">>, <<"MANIFEST.json">>, <<"sub", "b.txt">>, <<"sub", "MANIFEST.json">>}

FolderTrees ==
    UNION { [P -> { [text |-> t] : t \in Texts }] :
            P \in { Q \in SUBSET FolderPaths : Cardinality(Q) <= MaxFiles } }

ManifestDocs ==
    {[PLUGIN_NAME |-> "n"],
     [PLUGIN_NAME |-> "n", files |-> <<[filename |-> "old.py", crc |-> 0]>>]}

Init ==
    /\ source \in { [d \in {"plug"} |-> t] : t \in FolderTrees }
    /\ manifest \in {[exists |-> FALSE]} \cup { [exists |-> TRUE, doc |-> m] : m \in ManifestDocs }
    /\ pkg = NoArchive
    /\ folderCall = NoCall
    /\ tampered = 0
    /\ verdict = "none"
    /\ cwdManifest = FALSE
    /\ catalog = NoCatalog
    /\ BatchIdle
    /\ ExtractIdle

Next ==
    \/ \E d \in DOMAIN source, manifest_path \in {NoPath, ManifestPath} :
         package_folder(d, manifest_path)
    \/ AlterEntry
    \/ SwapEntries
    \/ RemoveEntry
    \/ SwapRecorded
    \/ verify_package
    \/ package_files

Spec == Init /\ [][Next]_vars

\* build-catalog, package-all and verify-sidecar on a source directory
MaxDirs == 2
MaxBatchFiles == 2

TopDirs == {"p1", "p2", ".git"}

BatchPaths == {<<"a.py">>, <<"sub", "b.py">>, <<"c.pyc">>}

PyTexts == {"PLUGIN_NAME = 'p'", "import os", "x ="}

BatchTrees ==
    UNION { { t \in [P -> { [text |-> x] : x \in PyTexts \cup {"b"} }] :
                \A p \in P : (t[p].text = "b") <=> (Ext(p[Len(p)]) # ".py") } :
            P \in { Q \in SUBSET BatchPaths : Cardinality(Q) <= MaxBatchFiles } }

Catalogs ==
    {NoCatalog,
     [exists |-> TRUE, plugins |-> NoPlugins],
     [exists |-> TRUE, plugins |-> [d \in {"p1"} |-> [name |-> "old"]]]}

InitBatch ==
    /\ source \in UNION { [D -> BatchTrees] :
                          D \in { E \in SUBSET TopDirs : Cardinality(E) <= MaxDirs } }
    /\ cwdManifest \in BOOLEAN
    /\ catalog \in Catalogs
    /\ BatchIdle
    /\ FoldersIdle
    /\ ExtractIdle

NextBatch ==
    \/ build_json
    \/ package_files
    \/ \E d \in TopDirs : validate_plugin(d)
    \/ \E d \in TopDirs : truncate_archive(d)

SpecBatch == InitBatch /\ [][NextBatch]_vars

\* extract-metadata on one source file
InitExtract ==
    /\ pyfile \in PyFiles
    /\ extracted = NotExtracted
    /\ source = NoDirs
    /\ cwdManifest = FALSE
    /\ catalog = NoCatalog
    /\ BatchIdle
    /\ FoldersIdle

NextExtract == get_plugin_data

SpecExtract == InitExtract /\ [][NextExtract]_vars

(***************************************************************************)
(* Properties                                                              *)
(***************************************************************************)
PlugDir == "plug"

\* the entries package_folder wrote for the plugin's files (the manifest
\* entry, when one was bound, is the last entry)
PluginEntries ==
    IF folderCall.bound THEN SubSeq(pkg.entries, 1, Len(pkg.entries) - 1) ELSE pkg.entries

\* C1: package_folder with an existing manifest document followed by
\* verify_package on the unmodified archive returns True, whatever files the
\* plugin directory holds.
C1_BuildThenVerify ==
    (folderCall.called /\ folderCall.bound /\ tampered = 0 /\ verdict # "none")
        => verdict = "True"

\* the entry a lookup of MANIFEST.json yields holds a document with a "files" list
HasRecord(entries) ==
    /\ HasEntry(entries, ManifestName)
    /\ IsJson(GetInfo(entries, ManifestName).data)
    /\ "files" \in DOMAIN JsonLoads(GetInfo(entries, ManifestName).data)

Recorded(entries) == JsonLoads(GetInfo(entries, ManifestName).data).files

\* positions of the entries other than MANIFEST.json
Others(entries) == { i \in 1..Len(entries) : entries[i].filename # ManifestName }

Rank(entries, i) == Cardinality({ j \in Others(entries) : j <= i })

\* the live (name, checksum) pairs equal the recorded list, position by position
LiveMatches(entries) ==
    /\ Len(Recorded(entries)) = Cardinality(Others(entries))
    /\ \A i \in Others(entries) :
         /\ Recorded(entries)[Rank(entries, i)].filename = entries[i].filename
         /\ Recorded(entries)[Rank(entries, i)].crc = entries[i].CRC

NamedAsClaimed(entries, d) ==
    LET files == DOMAIN source[d]
    IN  /\ Cardinality(files) = 1 =>
              /\ Len(entries) = 1
              /\ \A r \in files : entries[1].filename = r[Len(r)]
                                    /\ entries[1].data = source[d][r]
        /\ Cardinality(files) >= 2 =>
              /\ Len(entries) = Cardinality(files)
              /\ \A r \in files :
                   Cardinality({ i \in 1..Len(entries) :
                                     /\ entries[i].filename = d \o "/" \o JoinSlash(r)
                                     /\ entries[i].data = source[d][r] }) = 1
        /\ files = {<<"a.txt">>, <<"sub", "b.txt">>} =>
              { entries[i].filename : i \in 1..Len(entries) }
                  = {d \o "/a.txt", d \o "/sub/b.txt"}

\* C4: package_folder and package_files store a lone file under its base
\* name, and two or more files each exactly once under
\* <plugin directory name>/<path below the plugin directory>.
C4_EntryNaming ==
    /\ (folderCall.called /\ tampered = 0) => NamedAsClaimed(PluginEntries, folderCall.plugin_dir)
    /\ \A d \in DOMAIN archives : NamedAsClaimed(archives[d].entries, d)

\* C4 witness: both commands have packaged the directory {a.txt, sub/b.txt}
C4_TwoFilesPackaged ==
    /\ folderCall.called /\ tampered = 0 /\ batchCall.packaged
    /\ PlugDir \in DOMAIN archives
    /\ DOMAIN source[PlugDir] = {<<"a.txt">>, <<"sub", "b.txt">>}

\* C10: called without a manifest path, or with the path of a missing file,
\* package_folder archives the plugin's files, adds no manifest entry,
\* leaves the manifest document alone and returns normally.
C10_ManifestOptional ==
    (folderCall.called /\ tampered = 0
       /\ (folderCall.manifest_path = NoPath \/ ~folderCall.manifest_before.exists))
        => /\ folderCall.outcome = "returned"
           /\ Len(pkg.entries) = Cardinality(DOMAIN source[folderCall.plugin_dir])
           /\ manifest = folderCall.manifest_before

\* C3: the sidecar package_files writes holds the digest of the finished
\* archive file, so validate_plugin returns True on the untouched archive and
\* False on a truncated one.
C3_SidecarRoundTrip ==
    \A d \in DOMAIN validated :
        validated[d] # "none" =>
            /\ sidecars[d] = md5hex(FileBytes([archives[d] EXCEPT !.cut = 0]))
            /\ (validated[d] = "True") <=> (archives[d].cut = 0)

\* C6: build_json ends normally, with the catalog written, whatever happens
\* while one plugin directory is processed.
C6_BatchFailureIsolated ==
    batchCall.built # "none" => (batchCall.built = "returned" /\ catalog.exists)

\* the directory has a non-.pyc file and a .py file with non-empty metadata
Qualifies(d) ==
    /\ d # ".git"
    /\ \E p \in DOMAIN source[d] : Ext(p[Len(p)]) # ".pyc"
    /\ \E p \in DOMAIN source[d] :
         /\ Ext(p[Len(p)]) = ".py"
         /\ PluginData(Parse(source[d][p].text)).outcome = "returned"
         /\ PluginData(Parse(source[d][p].text)).data # NoData

\* C7: after build_json the catalog in dest_dir lists exactly the qualifying
\* directories, each with its metadata and the digests of its non-.pyc
\* files, whatever catalog was there before.
C7_CatalogContent ==
    batchCall.built # "none" =>
        /\ catalog.exists
        /\ DOMAIN catalog.plugins = { d \in DOMAIN source : Qualifies(d) }
        /\ \A d \in DOMAIN catalog.plugins :
             /\ "files" \in DOMAIN catalog.plugins[d]
             /\ \A p \in DOMAIN source[d] :
                  Ext(p[Len(p)]) # ".pyc" =>
                      /\ JoinSlash(p) \in DOMAIN catalog.plugins[d].files
                      /\ catalog.plugins[d].files[JoinSlash(p)] = md5hex(source[d][p])

\* C8: with a catalog in dest_dir, package_files archives exactly the
\* directories the catalog lists; without one, every directory.
C8_CatalogGate ==
    batchCall.packaged =>
        \A d \in DOMAIN source :
            (d \in DOMAIN archives /\ d \in DOMAIN sidecars)
                <=> (batchCall.gate.exists => d \in DOMAIN batchCall.gate.plugins)

\* positions of the single-target assignments to a known key
AssignsTo(id) ==
    { i \in 1..Len(pyfile.body) :
          /\ pyfile.body[i].node = "Assign"
          /\ Len(pyfile.body[i].targets) = 1
          /\ pyfile.body[i].targets[1].node = "Name"
          /\ pyfile.body[i].targets[1].id = id }

Literal(i) == pyfile.body[i].value.eval = "ok"

\* C5: on a parseable file get_plugin_data returns a mapping whose keys are
\* the canonical names of the known keys that have a literal assignment,
\* each with an evaluated value; a value that is no safe literal only drops
\* its binding.
C5_ExtractsKnownLiterals ==
    (extracted.outcome # "none" /\ pyfile.parses) =>
        /\ extracted.outcome = "returned"
        /\ DOMAIN extracted.data
             = { KNOWN_DATA[id] : id \in { k \in DOMAIN KNOWN_DATA :
                                                \E i \in AssignsTo(k) : Literal(i) } }
        /\ \A id \in DOMAIN KNOWN_DATA :
             KNOWN_DATA[id] \in DOMAIN extracted.data =>
                 \E i \in AssignsTo(id) :
                     Literal(i) /\ extracted.data[KNOWN_DATA[id]] = pyfile.body[i].value.v

First(S) == CHOOSE i \in S : \A j \in S : i <= j

\* C9 as stated: the first assignment to a key alone decides it; when its
\* value fails literal evaluation the key is omitted.
C9_FirstAssignmentDecides ==
    extracted.outcome = "returned" =>
        \A id \in DOMAIN KNOWN_DATA :
            AssignsTo(id) # {} =>
                IF Literal(First(AssignsTo(id)))
                THEN /\ KNOWN_DATA[id] \in DOMAIN extracted.data
                     /\ extracted.data[KNOWN_DATA[id]] = pyfile.body[First(AssignsTo(id))].value.v
                ELSE KNOWN_DATA[id] \notin DOMAIN extracted.data

\* C9 amended: the first assignment to a key whose value evaluates as a
\* literal decides it and later ones are ignored; the key is omitted only
\* when no assignment to it evaluates.
C9_FirstLiteralDecides ==
    extracted.outcome = "returned" =>
        \A id \in DOMAIN KNOWN_DATA :
            LET ok == { i \in AssignsTo(id) : Literal(i) }
            IN  IF ok # {}
                THEN /\ KNOWN_DATA[id] \in DOMAIN extracted.data
                     /\ extracted.data[KNOWN_DATA[id]] = pyfile.body[First(ok)].value.v
                ELSE KNOWN_DATA[id] \notin DOMAIN extracted.data

\* C9 witness: two literal assignments to one key, the first one kept
C9_DuplicateKept ==
    /\ extracted.outcome = "returned"
    /\ \E id \in DOMAIN KNOWN_DATA :
         /\ Cardinality({ i \in AssignsTo(id) : Literal(i) }) >= 2
         /\ \E i, j \in AssignsTo(id) :
              /\ i < j /\ Literal(i) /\ Literal(j)
              /\ pyfile.body[i].value.v # pyfile.body[j].value.v
              /\ extracted.data[KNOWN_DATA[id]] = pyfile.body[i].value.v

====
